---- MODULE Spec2Model ----
(***************************************************************************)
(* W' balance (WPrime::setRide) and the Minimum W' metric of GoldenCheetah *)
(* src/src/WPrime.cpp, as a state machine over one WPrime instance.        *)
(*                                                                         *)
(* Numbers.  The code computes in IEEE doubles.  Here a double holding     *)
(* joules, minutes or a weight is a fixed-point integer with ExpScale      *)
(* units per 1.0; NaN is the one extra value NaN.  `int' variables of the  *)
(* code (last, inputArray, smoothArray, rawArray, Match.start ...) are     *)
(* plain integers.                                                         *)
(*                                                                         *)
(* Inputs.  Rides are recorded at 1 Hz starting at second 0 (RecIntSecs),  *)
(* so every second the code evaluates the spline at is one of its knots.   *)
(***************************************************************************)
EXTENDS Integers, Sequences, FiniteSets, TLC

\* ---------------------------------------------------------------- bounds
MaxPoints    == 30   \* longest ride, in data points
SegUnit      == 13   \* recorded power changes only every SegUnit points
MaxIrregular == 4    \* rides with irregular timestamps have at most this many points
Watts        == {0, 100, 300}        \* recorded power values
Steps        == {-1, 0, 1, 2}        \* timestamp increments between samples
ZoneCPs      == {200}                \* CP of the athlete's zone range
ZoneWprimes  == {20000}              \* W' of the athlete's zone range

\* ------------------------------------------------------ program constants
WprimeMultConst      == 1
DecayWindow          == 1200
WprimeMatchSmoothing == 25
WprimeMatchMinJoules == 100
MarkerMinJoules      == 2000
DefaultCP            == 250
TauScale             == 546
TauBase              == 316
RecIntSecs           == 1

\* ------------------------------------------------------------ arithmetic
ExpScale == 10000                 \* fixed-point units per 1.0 of a double
InvE     == 3679                  \* 1/E in fixed point, E = 2.71828183
NaN      == 0 - 2147483647        \* the IEEE not-a-number value
IntMin   == (0 - 2147483647) - 1  \* x86 "integer indefinite"

\* a QVector: the stored array of a function's values
Vector(f) == f @@ <<>>

\* double subtraction, NaN-propagating
FSub(a, b) == IF a = NaN \/ b = NaN THEN NaN ELSE a - b
\* double < and >=, false on NaN
FLt(a, b) == a # NaN /\ b # NaN /\ a < b
FGe(a, b) == a # NaN /\ b # NaN /\ a >= b

\* alternating Taylor series of e^(-r/d), 0 <= r < d, in fixed point
RECURSIVE ExpSeries(_, _, _, _, _)
ExpSeries(r, d, k, term, acc) ==
    LET next == (term * r + (d * k) \div 2) \div (d * k)
    IN  IF next = 0 THEN acc
        ELSE ExpSeries(r, d, k + 1, next,
                       IF k % 2 = 1 THEN acc - next ELSE acc + next)

RECURSIVE PowInvE(_, _)
PowInvE(q, v) == IF q = 0 THEN v ELSE PowInvE(q - 1, (v * InvE) \div ExpScale)

\* pow(E, -(n/d)) for n >= 0, d > 0
ExpNeg(n, d) == PowInvE(n \div d, ExpSeries(n % d, d, 1, ExpScale, ExpScale))

\* pow(E, -(double(j)/TAU)) for any TAU the code can hold
Weight(j, tau) ==
    IF tau > 0 THEN ExpNeg(j, tau)
    ELSE IF tau = 0 THEN (IF j = 0 THEN NaN ELSE 0)   \* 0/0 = NaN, j/0 = inf
    ELSE IF j * ExpScale <= -(tau + 1) THEN ExpScale  \* e^(j/|TAU|) rounds to 1.0
    ELSE (ExpScale * ExpScale) \div ExpNeg(j, -tau)

\* ----------------------------------------------------------------- state
VARIABLES
    dataPoints,   \* the recorded activity: <<[secs, watts], ...>>
    zones,        \* the athlete's zone configuration
    pc,           \* "recording" or "analysis"
    rideFile,     \* WPrime::rideFile, the last input
    values, xvalues, minY, maxY, CP, WPRIME, TAU,
    matches, mvalues, mxvalues,
    loc,          \* locals of the last non-degenerate setRide
    metricValue   \* MinWPrime's value

vars == <<dataPoints, zones, pc, rideFile, values, xvalues, minY, maxY,
          CP, WPRIME, TAU, matches, mvalues, mxvalues, loc, metricValue>>

NullRide == [null |-> TRUE,  dataPoints |-> <<>>, watts |-> FALSE]
Ride(dp, w) == [null |-> FALSE, dataPoints |-> dp, watts |-> w]

NoValue == NaN
NoLocals == [ran |-> FALSE]

ZoneConfigs ==
    {[present |-> FALSE, range |-> -1, cp |-> 0, wprime |-> 0]}
    \cup {[present |-> TRUE, range |-> -1, cp |-> c, wprime |-> w] :
            c \in ZoneCPs, w \in ZoneWprimes}
    \cup {[present |-> TRUE, range |-> 0, cp |-> c, wprime |-> w] :
            c \in ZoneCPs, w \in ZoneWprimes}

\* ------------------------------------------------------- STEP 1 resample
RECURSIVE GapFill(_, _, _)
GapFill(t, until, recInt) ==
    IF t < until THEN <<[x |-> t, y |-> 0]>> \o GapFill(t + recInt, until, recInt)
    ELSE <<>>

\* lets not go backwards -- or two samples at the same time:
\* if ((lp && p->secs > lp->secs) || !lp), lp the PREVIOUS sample
Accepts(noLp, lpSecs, pSecs) == (~noLp /\ pSecs > lpSecs) \/ noLp

RECURSIVE ResampleFrom(_, _, _, _)
ResampleFrom(dp, k, points, recInt) ==
    IF k > Len(dp) THEN points
    ELSE LET p      == dp[k]
             lpSecs == IF k = 1 THEN 0 ELSE dp[k - 1].secs
             gap    == IF k = 1 THEN <<>>
                       ELSE GapFill(lpSecs + recInt, p.secs, recInt)
             acc    == IF Accepts(k = 1, lpSecs, p.secs)
                       THEN <<[x |-> p.secs, y |-> p.watts]>>
                       ELSE <<>>
         IN  ResampleFrom(dp, k + 1, points \o gap \o acc, recInt)

Points(dp, recInt) == ResampleFrom(dp, 1, <<>>, recInt)
Last(dp) == IF dp = <<>> THEN 0 ELSE dp[Len(dp)].secs

\* QwtSpline, natural: through every knot; no curve (0) when the abscissae
\* are not strictly increasing
StrictlyIncreasing(points) ==
    \A k \in 1..(Len(points) - 1) : points[k].x < points[k + 1].x

SplineValue(points, x) ==
    IF ~StrictlyIncreasing(points) THEN 0
    ELSE points[CHOOSE k \in 1..Len(points) : points[k].x = x].y

\* ----------------------------------------------------- thresholds, TAU
GetCP(z) == IF z.present THEN (IF z.range >= 0 THEN z.cp ELSE 0) ELSE DefaultCP
GetWprime(z) == IF z.present THEN (IF z.range >= 0 THEN z.wprime ELSE 0) ELSE 0

\* the loop bound of the three per-second loops `for (i=0; i<last; i++)'
Filled(last) == 0..(last - 1)

RawArray(points, last) ==
    Vector([i \in 0..last |->
              IF i \in Filled(last) THEN SplineValue(points, i) ELSE 0])

Excess(value, cp) == IF value > cp THEN value - cp ELSE 0

InputArray(raw, last, cp) ==
    Vector([i \in 0..last |->
              IF i \in Filled(last) THEN Excess(raw[i], cp) ELSE 0])

RECURSIVE SumOver(_, _)
SumOver(f, S) ==
    IF S = {} THEN 0
    ELSE LET i == CHOOSE i \in S : TRUE IN f[i] + SumOver(f, S \ {i})

BelowSet(raw, last, cp) == {i \in Filled(last) : raw[i] < cp}
TotalBelowCP(raw, last, cp) == SumOver(raw, BelowSet(raw, last, cp))
CountBelowCP(raw, last, cp) == Cardinality(BelowSet(raw, last, cp))

\* totalBelowCP/countBelowCP
BelowMeanDefined(count) == count # 0

\* int(546 * pow(E, -0.01*(CP - total/count)) + 316), count # 0
TauOf(cp, total, count) ==
    (TauScale * ExpNeg(cp * count - total, 100 * count)) \div ExpScale + TauBase

\* int(NaN): undefined; x86 yields INT_MIN, AArch64 yields 0
IntOfNaN == {IntMin, 0}

TauOutcomes(cp, total, count) ==
    IF BelowMeanDefined(count) THEN {TauOf(cp, total, count)} ELSE IntOfNaN

\* ----------------------------------------------- STEP 2 depletion series
RECURSIVE SumProduct(_, _, _, _)
SumProduct(inputArray, w, i, j) ==
    IF j < DecayWindow /\ (i - j) > 0
    THEN LET term == IF w[j] = NaN THEN NaN ELSE inputArray[i - j] * w[j]
             rest == SumProduct(inputArray, w, i, j + 1)
         IN  IF term = NaN \/ rest = NaN THEN NaN ELSE term + rest
    ELSE 0

Values(inputArray, wprime, tau, last) ==
    LET w == Vector([j \in 0..last |-> Weight(j, tau)])
    IN  Vector([i \in 0..last |->
            LET sp == SumProduct(inputArray, w, i, 0)
            IN  FSub(wprime * ExpScale,
                     IF sp = NaN THEN NaN ELSE sp * WprimeMultConst)])

XValues(last) == Vector([i \in 0..last |-> (i * ExpScale) \div 60])

\* minY = maxY = 0; if (values[i] < minY) minY = values[i]
RECURSIVE MinY(_, _)
MinY(vals, i) ==
    IF i < 0 THEN 0
    ELSE LET m == MinY(vals, i - 1) IN IF FLt(vals[i], m) THEN vals[i] ELSE m

RECURSIVE MaxY(_, _)
MaxY(vals, i) ==
    IF i < 0 THEN 0
    ELSE LET m == MaxY(vals, i - 1) IN IF FLt(m, vals[i]) THEN vals[i] ELSE m

\* ------------------------------------------------ STEP 3 smoothing pass
\* initialise rolling average: for (i=25; i>0 && last-i>=0; i--)
RtotInit(raw, last) ==
    IF last - WprimeMatchSmoothing >= 0
    THEN SumOver(raw, (last - WprimeMatchSmoothing)..(last - 1))
    ELSE 0

\* rtot when the backward loop sets smoothArray[i]
RECURSIVE Rtot(_, _, _)
Rtot(raw, last, i) ==
    IF i = last THEN RtotInit(raw, last)
    ELSE (Rtot(raw, last, i + 1) - raw[i + 1]) + raw[(i + 1) - WprimeMatchSmoothing]

RtotTrace(raw, last) ==
    Vector([i \in WprimeMatchSmoothing..last |-> Rtot(raw, last, i)])

SmoothArray(raw, last, rtot) ==
    Vector([i \in 0..last |->
              IF i >= WprimeMatchSmoothing THEN rtot[i] \div WprimeMatchSmoothing
              ELSE raw[i]])

\* -------------------------------------------------- STEP 3 find matches
\* `Match match;' inside the loop body: match.start is not initialised.
\* The slot either still holds what an earlier iteration stored ("stale")
\* or is filled with zeroes by the build ("zero").
UninitOutcomes == {"stale", "zero"}

MatchDecl(uninit, slot) == IF uninit = "stale" THEN slot ELSE 0

\* the scan without its backward refinement: the match ends where the exit
\* was seen
RefineEndSkipped(raw, cp, start, end) == end

RECURSIVE RefineEnd(_, _, _, _)
RefineEnd(raw, cp, start, end) ==
    IF end > start /\ raw[end] < cp THEN RefineEnd(raw, cp, start, end - 1)
    ELSE end

Enters(inmatch, s, r, cp) == ~inmatch /\ (s >= cp \/ r >= cp)
Exits(inmatch, s, r, cp) == inmatch /\ (s < cp /\ r < cp)

MinCostOk(cost) == FGe(cost, WprimeMatchMinJoules * ExpScale)

ScanStep(st, i, smooth, raw, vals, cp, uninit) ==
    LET slot   == MatchDecl(uninit, st.start)
        enter  == Enters(st.inmatch, smooth[i], raw[i], cp)
        start  == IF enter THEN i ELSE slot
        in1    == st.inmatch \/ enter
        exit   == Exits(in1, smooth[i], raw[i], cp)
        end    == RefineEnd(raw, cp, start, i - 1)
        cost   == FSub(vals[start], vals[end])
        emit   == exit /\ end > start /\ MinCostOk(cost)
    IN  [inmatch |-> in1 /\ ~exit,
         start   |-> start,
         exits   |-> IF exit THEN st.exits + 1 ELSE st.exits,
         matches |-> IF emit
                     THEN Append(st.matches,
                                 [start |-> start, stop |-> end,
                                  secs  |-> (end - start) + 1, cost |-> cost])
                     ELSE st.matches]

\* for (i=0; i<last; i++) { ... }; st is the state the previous iteration
\* left (st.exits >= 0 always: it makes st evaluated before the next step)
RECURSIVE ScanFrom(_, _, _, _, _, _, _, _)
ScanFrom(st, i, last, smooth, raw, vals, cp, uninit) ==
    IF i < last /\ st.exits >= 0
    THEN ScanFrom(ScanStep(st, i, smooth, raw, vals, cp, uninit),
                  i + 1, last, smooth, raw, vals, cp, uninit)
    ELSE st

\* the scan closing, after the loop, the match still open at last - 1
FindMatchesClosingOpen(smooth, raw, vals, cp, last, uninit) ==
    LET sc == ScanFrom([inmatch |-> FALSE, start |-> 0, exits |-> 0,
                        matches |-> <<>>],
                       0, last, smooth, raw, vals, cp, uninit)
    IN  IF sc.inmatch /\ (last - 1) > sc.start
        THEN [sc EXCEPT !.inmatch = FALSE,
                        !.matches = Append(@,
                            [start |-> sc.start, stop |-> last - 1,
                             secs  |-> (last - 1 - sc.start) + 1,
                             cost  |-> FSub(vals[sc.start], vals[last - 1])])]
        ELSE sc

\* bool inmatch=false; matches.clear(); the scan; a match still open after
\* the loop is dropped
FindMatches(smooth, raw, vals, cp, last, uninit) ==
    ScanFrom([inmatch |-> FALSE, start |-> 0, exits |-> 0, matches |-> <<>>],
             0, last, smooth, raw, vals, cp, uninit)

\* SET MATCH SERIES FOR ALLPLOT CHART
RECURSIVE MatchSeries(_, _, _)
MatchSeries(ms, series, k) ==
    IF k > Len(ms) THEN <<>>
    ELSE (IF FGe(ms[k].cost, MarkerMinJoules * ExpScale)
          THEN <<series[ms[k].start], series[ms[k].stop]>>
          ELSE <<>>) \o MatchSeries(ms, series, k + 1)

\* --------------------------------------------------------------- setRide
Degenerate(input) == input.null \/ Len(input.dataPoints) = 0 \/ ~input.watts

Inputs(dp) == {NullRide, Ride(dp, FALSE), Ride(dp, TRUE)}

\* everything up to the TAU formula
Prepare(input, z) ==
    LET points == Points(input.dataPoints, RecIntSecs)
        last   == Last(input.dataPoints)
        cp     == GetCP(z)
        raw    == RawArray(points, last)
    IN  [points |-> points, last |-> last, cp |-> cp, wprime |-> GetWprime(z),
         rawArray |-> raw,
         inputArray |-> InputArray(raw, last, cp),
         totalBelowCP |-> TotalBelowCP(raw, last, cp),
         countBelowCP |-> CountBelowCP(raw, last, cp)]

\* the body of setRide after the early return, for one outcome of each
\* undefined operation: the members it leaves and its locals
RunSetRide(input, z, pr, tau, uninit) ==
    LET last   == pr.last
        vals   == Values(pr.inputArray, pr.wprime, tau, last)
        xs     == XValues(last)
        rtot   == RtotTrace(pr.rawArray, last)
        smooth == SmoothArray(pr.rawArray, last, rtot)
        sc     == FindMatches(smooth, pr.rawArray, vals, pr.cp, last, uninit)
    IN  [values |-> vals, xvalues |-> xs,
         minY |-> MinY(vals, last), maxY |-> MaxY(vals, last),
         CP |-> pr.cp, WPRIME |-> pr.wprime, TAU |-> tau,
         matches |-> sc.matches,
         mvalues |-> MatchSeries(sc.matches, vals, 1),
         mxvalues |-> MatchSeries(sc.matches, xs, 1),
         loc |-> [ran |-> TRUE,
                  points |-> pr.points,
                  last |-> last,
                  rawArray |-> pr.rawArray,
                  inputArray |-> pr.inputArray,
                  countBelowCP |-> pr.countBelowCP,
                  rtot |-> rtot,
                  smoothArray |-> smooth,
                  inmatch |-> sc.inmatch,
                  exits |-> sc.exits]]

SetRideOutcomes(input, z) ==
    LET pr == Prepare(input, z)
    IN  {RunSetRide(input, z, pr, tau, uninit) :
            tau \in TauOutcomes(pr.cp, pr.totalBelowCP, pr.countBelowCP),
            uninit \in UninitOutcomes}

SetRide ==
    \E input \in Inputs(dataPoints) :
        /\ pc' = "analysis"
        /\ rideFile' = input
        /\ UNCHANGED <<dataPoints, zones, metricValue>>
        /\ IF Degenerate(input)
           THEN /\ values' = <<>> /\ xvalues' = <<>>
                /\ minY' = 0 /\ maxY' = 0
                /\ CP' = 0 /\ WPRIME' = 0 /\ TAU' = 0
                /\ loc' = NoLocals
                /\ UNCHANGED <<matches, mvalues, mxvalues>>
           ELSE \E r \in SetRideOutcomes(input, zones) :
                /\ values' = r.values /\ xvalues' = r.xvalues
                /\ minY' = r.minY /\ maxY' = r.maxY
                /\ CP' = r.CP /\ WPRIME' = r.WPRIME /\ TAU' = r.TAU
                /\ matches' = r.matches
                /\ mvalues' = r.mvalues /\ mxvalues' = r.mxvalues
                /\ loc' = r.loc

\* ----------------------------------------------------- MinWPrime::compute
\* v/1000.00f for v <= 0 (minY is seeded 0 and only lowered)
Kilo(v) == -((-v) \div 1000)

\* WPrime w; w.setRide(r); setValue(w.minY/1000.00f)
MetricOutcomes(input, z) ==
    IF Degenerate(input) THEN {Kilo(0)}
    ELSE LET pr == Prepare(input, z)
         IN  {Kilo(MinY(Values(pr.inputArray, pr.wprime, tau, pr.last), pr.last)) :
                tau \in TauOutcomes(pr.cp, pr.totalBelowCP, pr.countBelowCP)}

Compute ==
    /\ pc' = "analysis"
    /\ \E v \in MetricOutcomes(Ride(dataPoints, TRUE), zones) : metricValue' = v
    /\ UNCHANGED <<dataPoints, zones, rideFile, values, xvalues, minY, maxY,
                   CP, WPRIME, TAU, matches, mvalues, mxvalues, loc>>

\* ------------------------------------------------------------- recording
Regular(dp) == \A k \in 1..Len(dp) : dp[k].secs = (k - 1) * RecIntSecs

\* RideFile::appendPoint while the activity is recorded
AppendPoint ==
    /\ pc = "recording"
    /\ Len(dataPoints) < MaxPoints
    /\ \E w \in Watts, dt \in Steps :
         LET n    == Len(dataPoints)
             secs == IF n = 0 THEN 0 ELSE dataPoints[n].secs + dt
         IN  /\ secs >= 0
             /\ n = 0 => dt = RecIntSecs
             /\ dt # RecIntSecs => n < MaxIrregular
             /\ n >= MaxIrregular => Regular(dataPoints)
             /\ (n > 0 /\ n % SegUnit # 0) => w = dataPoints[n].watts
             /\ dataPoints' = Append(dataPoints, [secs |-> secs, watts |-> w])
    /\ UNCHANGED <<zones, pc, rideFile, values, xvalues, minY, maxY,
                   CP, WPRIME, TAU, matches, mvalues, mxvalues, loc, metricValue>>

\* WPrime::WPrime() and an empty activity
Init ==
    /\ dataPoints = <<>>
    /\ zones \in ZoneConfigs
    /\ pc = "recording"
    /\ rideFile = NullRide
    /\ values = <<>> /\ xvalues = <<>>
    /\ minY = 0 /\ maxY = 0
    /\ CP = 0 /\ WPRIME = 0 /\ TAU = 0
    /\ matches = <<>> /\ mvalues = <<>> /\ mxvalues = <<>>
    /\ loc = NoLocals
    /\ metricValue = NoValue

\* one WPrime instance fed the activity
Next == AppendPoint \/ SetRide

Spec == Init /\ [][Next]_vars

\* the metric computed for the activity
MetricNext == AppendPoint \/ Compute

MetricSpec == Init /\ [][MetricNext]_vars

\* ================================================================ claims
\* the last setRide ran the pipeline / returned early
RanPipeline == pc = "analysis" /\ loc.ran
RanDegenerate == pc = "analysis" /\ Degenerate(rideFile)

Size(f) == Cardinality(DOMAIN f)
MatchSet == {matches[k] : k \in 1..Len(matches)}
Joules(n) == n * ExpScale

\* the dense 1-second series: the resampled power at second i, 0 <= i <= last
Series(i) == SplineValue(loc.points, i)

\* C1: after a setRide with degenerate input (null ride, no data points, no
\* power channel) the exposed result is empty: depletion series and minutes
\* axis of length 0, minY = maxY = 0, CP = WPRIME = TAU = 0, and no match and
\* no chart marker of an earlier run left.
C1_DegenerateResultEmpty ==
    RanDegenerate =>
        /\ Size(values) = 0 /\ Size(xvalues) = 0
        /\ minY = 0 /\ maxY = 0
        /\ CP = 0 /\ WPRIME = 0 /\ TAU = 0
        /\ matches = <<>> /\ mvalues = <<>> /\ mxvalues = <<>>

\* C2: every match the detection scan of a run leaves has stop > start,
\* cost = depletion[start] - depletion[stop] >= 100 J, secs = stop - start + 1,
\* raw[stop] >= CP and raw[stop+1] < CP.
C2_MatchInvariant ==
    RanPipeline =>
        \A m \in MatchSet :
            /\ m.start \in 0..loc.last /\ m.stop \in 0..(loc.last - 1)
            /\ m.stop > m.start
            /\ m.cost = FSub(values[m.start], values[m.stop])
            /\ FGe(m.cost, Joules(WprimeMatchMinJoules))
            /\ m.secs = (m.stop - m.start) + 1
            /\ loc.rawArray[m.stop] >= CP
            /\ loc.rawArray[m.stop + 1] < CP

\* a match whose end the backward refinement moved: the smoothed series was
\* still at or above CP right after the stop
C2_Witness ==
    /\ RanPipeline
    /\ \E m \in MatchSet : loc.smoothArray[m.stop + 1] >= CP

\* C3: when the power stays at or above CP from second s through the final
\* sample, no match starts at or after s: the match open at the end of the
\* scan is not emitted.
FinalRunFrom(s) == \A k \in s..loc.last : Series(k) >= CP

C3_NoTrailingOpenMatch ==
    RanPipeline =>
        \A s \in 0..loc.last :
            FinalRunFrom(s) => \A m \in MatchSet : m.start < s

\* the scan ended inside a match on a final above-CP run that began after an
\* earlier match was emitted
C3_Witness ==
    /\ RanPipeline
    /\ loc.inmatch
    /\ matches # <<>>
    /\ \E s \in 1..(loc.last - 1) : FinalRunFrom(s) /\ Series(s - 1) < CP

\* C4: power at or above CP exactly on one plateau [a, b], b > a, with
\* below-CP seconds before and after and depletion[a] - depletion[b] >= 100 J,
\* gives exactly one match, with start = a, stop = b and that cost.
Plateau(a, b) ==
    /\ 0 < a /\ a < b /\ b < loc.last
    /\ \A k \in 0..loc.last : (Series(k) >= CP) <=> (k \in a..b)
    /\ FGe(FSub(values[a], values[b]), Joules(WprimeMatchMinJoules))

C4_PlateauOneMatch ==
    RanPipeline =>
        \A a \in 0..loc.last, b \in 0..loc.last :
            Plateau(a, b) =>
                /\ Len(matches) = 1
                /\ matches[1].start = a /\ matches[1].stop = b
                /\ matches[1].cost = FSub(values[a], values[b])

\* C5: the accepted points have strictly increasing timestamps and the dense
\* output has lastAcceptedTimestamp + 1 entries.
LastAcceptedTimestamp == loc.points[Len(loc.points)].x

C5_MonotoneResample ==
    RanPipeline =>
        /\ StrictlyIncreasing(loc.points)
        /\ Size(values) = LastAcceptedTimestamp + 1
        /\ Size(xvalues) = LastAcceptedTimestamp + 1

\* C6: after a non-degenerate run depletion[i] <= WPRIME at every second, and
\* depletion[i] = WPRIME at every second when the power is zero throughout
\* and CP > 0.
AllZeroPower == \A k \in 0..loc.last : Series(k) = 0

C6_DepletionBound ==
    RanPipeline =>
        /\ \A i \in DOMAIN values : FGe(Joules(WPRIME), values[i])
        /\ (AllZeroPower /\ CP > 0) =>
               \A i \in DOMAIN values : values[i] = Joules(WPRIME)

\* C7: the Minimum W' metric of an activity with a non-empty depletion series
\* is the minimum of that series divided by 1000.
RECURSIVE MinOf(_, _)
MinOf(f, S) ==
    LET i == CHOOSE i \in S : TRUE
    IN  IF S = {i} THEN f[i]
        ELSE LET m == MinOf(f, S \ {i}) IN IF FLt(f[i], m) THEN f[i] ELSE m

Div1000(v) == IF v >= 0 THEN v \div 1000 ELSE -((-v) \div 1000)

DepletionOutcomes(input, z) ==
    LET pr == Prepare(input, z)
    IN  {Values(pr.inputArray, pr.wprime, tau, pr.last) :
            tau \in TauOutcomes(pr.cp, pr.totalBelowCP, pr.countBelowCP)}

C7_MetricIsSeriesMinimum ==
    (metricValue # NoValue /\ dataPoints # <<>>) =>
        \E vals \in DepletionOutcomes(Ride(dataPoints, TRUE), zones) :
            metricValue = Div1000(MinOf(vals, DOMAIN vals))

\* C8: with no second below CP the below-CP mean counts as 0: TAU is the
\* formula's value for mean 0 and no NaN is in the depletion series.
TauMeanZero(cp) == (TauScale * ExpNeg(cp, 100)) \div ExpScale + TauBase

C8_TauGuarded ==
    (RanPipeline /\ loc.countBelowCP = 0) =>
        /\ TAU = TauMeanZero(CP)
        /\ \A i \in DOMAIN values : values[i] # NaN

\* C9: at every step i of the backward smoothing loop the running sum is the
\* sum of raw[i-25 .. i-1], smoothed[i] is its truncated mean, and
\* smoothed[i] = raw[i] for i < 25.
TrailingSum(i) ==
    SumOver(loc.rawArray, (i - WprimeMatchSmoothing)..(i - 1))

C9_RunningSumIsWindowSum ==
    RanPipeline =>
        \A i \in 0..loc.last :
            IF i >= WprimeMatchSmoothing
            THEN /\ loc.rtot[i] = TrailingSum(i)
                 /\ loc.smoothArray[i] = TrailingSum(i) \div WprimeMatchSmoothing
            ELSE loc.smoothArray[i] = loc.rawArray[i]

\* C10: excess[i] = max(0, series[i] - CP) at every second 0..last, the last
\* one included.
C10_ExcessEverySecond ==
    RanPipeline =>
        \A i \in 0..loc.last :
            loc.inputArray[i] = (IF Series(i) - CP > 0 THEN Series(i) - CP ELSE 0)

====
